---- MODULE Spec2Model ----
(***************************************************************************)
(* Container Analysis Tool (src/main.py): a single-pass script that reads  *)
(* uploaded spreadsheets, normalizes importer names, derives fields,       *)
(* aggregates and writes a five-sheet report.                              *)
(*                                                                         *)
(* Strings are sequences of one-character strings, so that upper-casing,   *)
(* trimming, regex filtering, substring search and concatenation are       *)
(* computed rather than assumed.                                           *)
(***************************************************************************)
EXTENDS Integers, Sequences, FiniteSets, TLC

VARIABLES
    pc,              \* position of the script / of normalize_importer_names
    uploaded_files,  \* the files handed over by st.file_uploader
    idx,             \* number of files the ingest loop has consumed
    all_data,        \* the frames of the files that passed validation
    signals,         \* what the user was shown: warnings, errors, success, download
    df,              \* the unified table
    products_per_container,
    weight_per_product,
    shipment_cost_per_container,
    revenue_per_importer,
    sheets,          \* the sheets written to the ExcelWriter so far
    main_output,     \* the sheet names of the workbook saved into the BytesIO
    importer_col,    \* df['Importer'] handed to normalize_importer_names
    normalized_col,  \* df['Normalized_Importer']
    names,           \* df['Normalized_Importer'].unique(), the loop's iterable
    k,               \* number of names the loop has consumed
    unique_names,    \* the list of canonical forms
    name_mapping     \* the dict, as a sequence of [name, canon] in insertion order

norm_vars == <<importer_col, normalized_col, names, k, unique_names, name_mapping>>
agg_vars == <<products_per_container, weight_per_product,
              shipment_cost_per_container, revenue_per_importer>>
run_vars == <<uploaded_files, idx, all_data, signals, df, agg_vars, sheets, main_output>>
vars == <<pc, run_vars, norm_vars>>

----------------------------------------------------------------------------
(* Characters and strings                                                  *)

LowerCase == <<"a","b","c","d","e","f","g","h","i","j","k","l","m",
               "n","o","p","q","r","s","t","u","v","w","x","y","z">>
UpperCase == <<"A","B","C","D","E","F","G","H","I","J","K","L","M",
               "N","O","P","Q","R","S","T","U","V","W","X","Y","Z">>
Digits == <<"0","1","2","3","4","5","6","7","8","9">>

Range(s) == {s[i] : i \in DOMAIN s}

SetMin(S) == CHOOSE x \in S : \A y \in S : x <= y
SetMax(S) == CHOOSE x \in S : \A y \in S : x >= y

\* str.upper() on one character
ToUpper(c) ==
    IF \E i \in DOMAIN LowerCase : LowerCase[i] = c
    THEN UpperCase[CHOOSE i \in DOMAIN LowerCase : LowerCase[i] = c]
    ELSE c

\* str.lower() on one character
ToLower(c) ==
    IF \E i \in DOMAIN UpperCase : UpperCase[i] = c
    THEN LowerCase[CHOOSE i \in DOMAIN UpperCase : UpperCase[i] = c]
    ELSE c

Upper(s) == [i \in DOMAIN s |-> ToUpper(s[i])]
Lower(s) == [i \in DOMAIN s |-> ToLower(s[i])]

Whitespace == {" ", "\t"}

\* str.strip(): drop leading and trailing whitespace
Strip(s) ==
    LET keep == {i \in DOMAIN s : s[i] \notin Whitespace}
    IN  IF keep = {} THEN <<>> ELSE SubSeq(s, SetMin(keep), SetMax(keep))

\* the character class [A-Z0-9 ] of the regex on line 29
InClass(c) == c \in Range(UpperCase) \cup Range(Digits) \cup {" "}

\* str.replace(r'[^A-Z0-9 ]', '', regex=True)
RegexStrip(s) == SelectSeq(s, InClass)

\* the missing value (NaN / None) of an object column
Null == <<"NULL">>

\* astype(str): a missing value becomes the text "nan"
AsStr(v) == IF v = Null THEN <<"n","a","n">> ELSE v

----------------------------------------------------------------------------
(* normalize_importer_names                                                *)

\* line 29, on one cell
NormalizeNoUpper(v) == Strip(RegexStrip(AsStr(v)))
NormalizeName(v) == Strip(RegexStrip(Upper(AsStr(v))))

\* Series.unique(): distinct values in first-seen order
RECURSIVE Unique(_)
Unique(s) ==
    IF s = <<>> THEN <<>>
    ELSE LET init == Unique(SubSeq(s, 1, Len(s) - 1))
             last == s[Len(s)]
         IN  IF last \in Range(init) THEN init ELSE Append(init, last)

\* str.split(): the maximal runs of non-whitespace characters
RECURSIVE Split(_)
Split(s) ==
    LET t == Strip(s)
    IN  IF t = <<>> THEN <<>>
        ELSE LET ws == {i \in DOMAIN t : t[i] \in Whitespace}
             IN  IF ws = {} THEN <<t>>
                 ELSE <<SubSeq(t, 1, SetMin(ws) - 1)>>
                      \o Split(SubSeq(t, SetMin(ws) + 1, Len(t)))

\* code-point order of the characters in use
CodeOrder ==
    <<"\t", " ", "(", ")", ".">> \o Digits \o <<":">> \o UpperCase \o <<"_">> \o LowerCase
Ord(c) == CHOOSE i \in DOMAIN CodeOrder : CodeOrder[i] = c

\* Python's str <= str
RECURSIVE StrLeq(_, _)
StrLeq(a, b) ==
    IF a = <<>> THEN TRUE
    ELSE IF b = <<>> THEN FALSE
    ELSE IF Ord(Head(a)) < Ord(Head(b)) THEN TRUE
    ELSE IF Ord(Head(a)) > Ord(Head(b)) THEN FALSE
    ELSE StrLeq(Tail(a), Tail(b))

\* sorted(tokens)
RECURSIVE SortTokens(_)
SortTokens(ts) ==
    IF ts = <<>> THEN <<>>
    ELSE LET rest == SortTokens(Tail(ts))
             h == Head(ts)
             lo == SelectSeq(rest, LAMBDA t : ~StrLeq(h, t))
             hi == SelectSeq(rest, LAMBDA t : StrLeq(h, t))
         IN  lo \o <<h>> \o hi

\* " ".join(tokens)
RECURSIVE Join(_)
Join(ts) ==
    IF ts = <<>> THEN <<>>
    ELSE IF Len(ts) = 1 THEN ts[1]
    ELSE ts[1] \o <<" ">> \o Join(Tail(ts))

TokenSort(s) == Join(SortTokens(Split(s)))

\* length of a longest common subsequence
LCS(a, b) ==
    LET f[i \in 0..Len(a), j \in 0..Len(b)] ==
            IF i = 0 \/ j = 0 THEN 0
            ELSE IF a[i] = b[j] THEN f[i - 1, j - 1] + 1
            ELSE IF f[i - 1, j] >= f[i, j - 1] THEN f[i - 1, j] ELSE f[i, j - 1]
    IN  f[Len(a), Len(b)]

\* fuzz.ratio: 100 * (1 - indel / (len1 + len2)), kept as the fraction n/d
Ratio(a, b) ==
    IF Len(a) + Len(b) = 0 THEN [n |-> 100, d |-> 1]
    ELSE [n |-> 200 * LCS(a, b), d |-> Len(a) + Len(b)]

\* fuzz.token_sort_ratio
TokenSortRatio(a, b) == Ratio(TokenSort(a), TokenSort(b))

ScoreGt(x, y) == x.n * y.d > y.n * x.d
ScoreGeq(x, t) == x.n >= t * x.d

similarity_threshold == 90

\* process.extractOne(name, choices, scorer=fuzz.token_sort_ratio): the index of
\* the best-scoring choice, the earliest one on a tie
RECURSIVE BestIndex(_, _, _)
BestIndex(name, choices, n) ==
    IF n = 1 THEN 1
    ELSE LET b == BestIndex(name, choices, n - 1)
         IN  IF ScoreGt(TokenSortRatio(name, choices[n]), TokenSortRatio(name, choices[b]))
             THEN n ELSE b

ExtractOneFirst(name, choices) ==
    [match |-> choices[1], score |-> TokenSortRatio(name, choices[1])]

ExtractOne(name, choices) ==
    LET b == BestIndex(name, choices, Len(choices))
    IN  [match |-> choices[b], score |-> TokenSortRatio(name, choices[b])]

----------------------------------------------------------------------------
(* Column labels                                                           *)

required_columns ==
    <<"Importer", "Date", "Master Bill Number", "Quantity",
      "Value(USD)", "Unit Price(USD)", "Description">>

\* lines 21-26; 'Exporter Contact' 'Packaging type' is one string in the source
ignore_columns_in_cleaned_sheet ==
    <<"HS Code Description", "Importer Address", "Importer Contact", "Exporter Address",
      "Exporter ContactPackaging type",
      "Number of packages", "Package unit", "TEU", "Freight fee", "Insurance fee",
      "Loading Place", "Unloading Place", "Customs", "incoterms", "Carrier", "VOCC",
      "Vessel Name", "Voyage", "House Bill Number", "Customs Declaration Number">>

\* the characters of every column label the script can meet
Chars(label) ==
    CASE label = "Unnamed: 0" ->
           <<"U","n","n","a","m","e","d",":"," ","0">>
      [] label = "Importer" ->
           <<"I","m","p","o","r","t","e","r">>
      [] label = "Date" ->
           <<"D","a","t","e">>
      [] label = "Master Bill Number" ->
           <<"M","a","s","t","e","r"," ","B","i","l","l"," ","N","u","m","b","e","r">>
      [] label = "Quantity" ->
           <<"Q","u","a","n","t","i","t","y">>
      [] label = "Value(USD)" ->
           <<"V","a","l","u","e","(","U","S","D",")">>
      [] label = "Unit Price(USD)" ->
           <<"U","n","i","t"," ","P","r","i","c","e","(","U","S","D",")">>
      [] label = "Description" ->
           <<"D","e","s","c","r","i","p","t","i","o","n">>
      [] label = " Description " ->
           <<" ","D","e","s","c","r","i","p","t","i","o","n"," ">>
      [] label = "Carrier" ->
           <<"C","a","r","r","i","e","r">>
      [] label = "source_file" ->
           <<"s","o","u","r","c","e","_","f","i","l","e">>
      [] label = "Normalized_Importer" ->
           <<"N","o","r","m","a","l","i","z","e","d","_","I","m","p","o","r","t","e","r">>
      [] label = "Date_str" ->
           <<"D","a","t","e","_","s","t","r">>
      [] label = "Unique Master Bill Number" ->
           <<"U","n","i","q","u","e"," ","M","a","s","t","e","r"," ","B","i","l","l"," ","N","u","m","b","e","r">>
      [] label = "Container Name" ->
           <<"C","o","n","t","a","i","n","e","r"," ","N","a","m","e">>
      [] label = "Weight (kgs)" ->
           <<"W","e","i","g","h","t"," ","(","k","g","s",")">>
      [] label = "Value (USD)" ->
           <<"V","a","l","u","e"," ","(","U","S","D",")">>
      [] label = "Unit Price (USD)" ->
           <<"U","n","i","t"," ","P","r","i","c","e"," ","(","U","S","D",")">>
      [] label = "Shipment Cost" ->
           <<"S","h","i","p","m","e","n","t"," ","C","o","s","t">>
      [] label = "Products List" ->
           <<"P","r","o","d","u","c","t","s"," ","L","i","s","t">>
      [] label = "Total Products in Container" ->
           <<"T","o","t","a","l"," ","P","r","o","d","u","c","t","s"," ","i","n"," ","C","o","n","t","a","i","n","e","r">>
      [] label = "Total Shipment Cost (USD)" ->
           <<"T","o","t","a","l"," ","S","h","i","p","m","e","n","t"," ","C","o","s","t"," ","(","U","S","D",")">>
      [] label = "Total Value(USD) per Importer" ->
           <<"T","o","t","a","l"," ","V","a","l","u","e","(","U","S","D",")"," ","p","e","r"," ","I","m","p","o","r","t","e","r">>

Labels ==
    { "Unnamed: 0",
      "Importer",
      "Date",
      "Master Bill Number",
      "Quantity",
      "Value(USD)",
      "Unit Price(USD)",
      "Description",
      " Description ",
      "Carrier",
      "source_file",
      "Normalized_Importer",
      "Date_str",
      "Unique Master Bill Number",
      "Container Name",
      "Weight (kgs)",
      "Value (USD)",
      "Unit Price (USD)",
      "Shipment Cost",
      "Products List",
      "Total Products in Container",
      "Total Shipment Cost (USD)",
      "Total Value(USD) per Importer" }

\* col.strip() on a label (line 62)
StripLabel(h) ==
    LET stripped == Strip(Chars(h))
    IN  CHOOSE l \in Labels : Chars(l) = stripped

\* the keywords of line 131
SortKeywords == << <<"c","o","s","t">>, <<"r","e","v","e","n","u","e">>, <<"w","e","i","g","h","t">>, <<"v","a","l","u","e">> >>

\* k in col.lower()
Contains(s, sub) ==
    \E i \in 0..(Len(s) - Len(sub)) : SubSeq(s, i + 1, i + Len(sub)) = sub

\* any(k in col.lower() for k in ['cost', 'revenue', 'weight', 'value'])
HasKeyword(label) ==
    LET lowered == Lower(Chars(label))
    IN  \E i \in DOMAIN SortKeywords : Contains(lowered, SortKeywords[i])

----------------------------------------------------------------------------
(* Cells                                                                   *)

\* a cell of a numeric column: a number, text that parses as one, other text, or NaN
Num(v) == [k |-> "num", v |-> v]
NumText(v) == [k |-> "str", v |-> v]
BadText == [k |-> "bad", v |-> 0]
NaN == [k |-> "nan", v |-> 0]

\* pd.to_numeric(errors='coerce')
ToNumeric(c) == IF c.k \in {"num", "str"} THEN Num(c.v) ELSE NaN

\* a cell of the Date column: a date, text that is no date, or NaN
DateCell(m, d) == [k |-> "date", m |-> m, d |-> d]
BadDate == [k |-> "bad", m |-> 0, d |-> 0]
NoDate == [k |-> "nan", m |-> 0, d |-> 0]
NaT == [k |-> "nat", m |-> 0, d |-> 0]

\* pd.to_datetime(errors='coerce')
ToDatetime(c) == IF c.k = "date" THEN DateCell(c.m, c.d) ELSE NaT

\* %B of strftime
MonthName ==
    << <<"J","a","n","u","a","r","y">>,
       <<"F","e","b","r","u","a","r","y">>,
       <<"M","a","r","c","h">>,
       <<"A","p","r","i","l">>,
       <<"M","a","y">>,
       <<"J","u","n","e">>,
       <<"J","u","l","y">>,
       <<"A","u","g","u","s","t">>,
       <<"S","e","p","t","e","m","b","e","r">>,
       <<"O","c","t","o","b","e","r">>,
       <<"N","o","v","e","m","b","e","r">>,
       <<"D","e","c","e","m","b","e","r">> >>

TwoDigits(n) == <<Digits[(n \div 10) + 1], Digits[(n % 10) + 1]>>

\* .dt.strftime('%B%d'): NaT gives NaN
Strftime(c) == IF c.k = "nat" THEN Null ELSE MonthName[c.m] \o TwoDigits(c.d)

\* + on object columns: NaN on either side gives NaN
StrAdd(a, b) == IF a = Null \/ b = Null THEN Null ELSE a \o b

\* .replace("nan", np.nan): the whole value is compared
ReplaceNan(v) == IF v = <<"n","a","n">> THEN Null ELSE v

\* .fillna(other)
FillNa(v, other) == IF v = Null THEN other ELSE v

RawNumberLabels == {"Quantity", "Value(USD)", "Unit Price(USD)"}

\* isna() of a cell as read from the file
IsNullCell(label, cell) ==
    IF label \in RawNumberLabels \cup {"Date"} THEN cell.k = "nan" ELSE cell = Null

----------------------------------------------------------------------------
(* Tables: [cols |-> labels in order, rows |-> functions from label to cell] *)

EmptyTable == [cols |-> <<>>, rows |-> <<>>]

\* df.empty or df.dropna(how='all').shape[0] == 0 (line 58)
IsEmptyFrame(cols, rows) ==
    \/ cols = <<>>
    \/ \A i \in DOMAIN rows : \A c \in Range(cols) : IsNullCell(c, rows[i][c])

\* [col for col in required_columns if col not in df.columns] (line 63)
MissingColumns(cols) == SelectSeq(required_columns, LAMBDA c : c \notin Range(cols))

\* pd.concat(all_data, ignore_index=True): the union of the columns in first-seen
\* order, the rows in order, NaN where a frame lacks a column
RECURSIVE ConcatCols(_)
ConcatCols(frames) ==
    IF frames = <<>> THEN <<>>
    ELSE LET init == ConcatCols(SubSeq(frames, 1, Len(frames) - 1))
         IN  init \o SelectSeq(frames[Len(frames)].cols, LAMBDA c : c \notin Range(init))

RECURSIVE ConcatRowsReversed(_)
ConcatRowsReversed(frames) ==
    IF frames = <<>> THEN <<>> ELSE ConcatRowsReversed(Tail(frames)) \o Head(frames).rows

RECURSIVE ConcatRows(_)
ConcatRows(frames) ==
    IF frames = <<>> THEN <<>> ELSE Head(frames).rows \o ConcatRows(Tail(frames))

Concat(frames) ==
    LET cols == ConcatCols(frames)
        rows == ConcatRows(frames)
    IN  [cols |-> cols,
         rows |-> [i \in DOMAIN rows |->
                     rows[i] @@ [c \in Range(cols) \ DOMAIN rows[i] |-> Null]]]

DerivedColumns ==
    <<"Normalized_Importer", "Date_str", "Unique Master Bill Number", "Container Name",
      "Weight (kgs)", "Value (USD)", "Unit Price (USD)", "Shipment Cost">>

\* lines 77-93 on one row
DeriveRowNoStrip(r) ==
    LET importer == Upper(Strip(AsStr(r["Importer"])))
        date == ToDatetime(r["Date"])
        date_str == Strftime(date)
        bill == ReplaceNan(AsStr(r["Master Bill Number"]))
        filled == FillNa(bill, StrAdd(StrAdd(importer, <<" ">>), date_str))
        unique_bill == AsStr(filled)
        quantity == ToNumeric(r["Quantity"])
        value == ToNumeric(r["Value(USD)"])
    IN  ("Importer" :> importer)
        @@ ("Normalized_Importer" :> NormalizeName(importer))
        @@ ("Date" :> date)
        @@ ("Date_str" :> date_str)
        @@ ("Master Bill Number" :> filled)
        @@ ("Unique Master Bill Number" :> unique_bill)
        @@ ("Container Name" :> unique_bill)
        @@ ("Quantity" :> quantity)
        @@ ("Weight (kgs)" :> quantity)
        @@ ("Value (USD)" :> value)
        @@ ("Unit Price (USD)" :> ToNumeric(r["Unit Price(USD)"]))
        @@ ("Shipment Cost" :> value)
        @@ r

DeriveRow(r) ==
    LET importer == Upper(Strip(AsStr(r["Importer"])))
        date == ToDatetime(r["Date"])
        date_str == Strftime(date)
        bill == ReplaceNan(AsStr(r["Master Bill Number"]))
        filled == FillNa(bill, StrAdd(StrAdd(importer, <<" ">>), date_str))
        unique_bill == Strip(AsStr(filled))
        quantity == ToNumeric(r["Quantity"])
        value == ToNumeric(r["Value(USD)"])
    IN  ("Importer" :> importer)
        @@ ("Normalized_Importer" :> NormalizeName(importer))
        @@ ("Date" :> date)
        @@ ("Date_str" :> date_str)
        @@ ("Master Bill Number" :> filled)
        @@ ("Unique Master Bill Number" :> unique_bill)
        @@ ("Container Name" :> unique_bill)
        @@ ("Quantity" :> quantity)
        @@ ("Weight (kgs)" :> quantity)
        @@ ("Value (USD)" :> value)
        @@ ("Unit Price (USD)" :> ToNumeric(r["Unit Price(USD)"]))
        @@ ("Shipment Cost" :> value)
        @@ r

\* lines 77-93 on the unified table
DeriveTable(t) ==
    [cols |-> t.cols \o DerivedColumns,
     rows |-> [i \in DOMAIN t.rows |-> DeriveRow(t.rows[i])]]

----------------------------------------------------------------------------
(* Aggregation                                                             *)

\* the sorted group keys of groupby (sort=True)
RECURSIVE SortStrings(_)
SortStrings(S) ==
    IF S = {} THEN <<>>
    ELSE LET m == CHOOSE x \in S : \A y \in S : StrLeq(x, y)
         IN  <<m>> \o SortStrings(S \ {m})

\* (a, b) <= (c, d) on tuples of strings
PairLeq(x, y) == IF x[1] = y[1] THEN StrLeq(x[2], y[2]) ELSE StrLeq(x[1], y[1])

RECURSIVE SortPairs(_)
SortPairs(S) ==
    IF S = {} THEN <<>>
    ELSE LET m == CHOOSE x \in S : \A y \in S : PairLeq(x, y)
         IN  <<m>> \o SortPairs(S \ {m})

\* .sum() of a numeric column: NaN is skipped, an empty sum is 0
RECURSIVE SumCells(_, _)
SumCells(rows, col) ==
    IF rows = <<>> THEN 0
    ELSE (IF Head(rows)[col].k = "num" THEN Head(rows)[col].v ELSE 0)
         + SumCells(Tail(rows), col)

\* the values of a column in row order
Column(rows, col) == [i \in DOMAIN rows |-> rows[i][col]]

\* lines 95-104
ProductsPerContainer(t) ==
    LET keys == SortStrings(Range(Column(t.rows, "Container Name")))
        group(c) == SelectSeq(t.rows, LAMBDA r : r["Container Name"] = c)
        products(c) ==
            Unique(SelectSeq(Column(group(c), "Description"), LAMBDA d : d # Null))
    IN  [cols |-> <<"Container Name", "Total Products in Container", "Products List">>,
         rows |-> [i \in DOMAIN keys |->
                     ("Container Name" :> keys[i])
                     @@ ("Total Products in Container" :> Num(Len(products(keys[i]))))
                     @@ ("Products List" :> products(keys[i]))]]

\* lines 106-109: groupby drops the rows whose key holds a NaN (dropna=True)
WeightPerProduct(t) ==
    LET keyed == SelectSeq(t.rows, LAMBDA r : r["Description"] # Null)
        keys == SortPairs({<<keyed[i]["Container Name"], keyed[i]["Description"]>> :
                              i \in DOMAIN keyed})
        group(key) == SelectSeq(keyed, LAMBDA r : /\ r["Container Name"] = key[1]
                                                  /\ r["Description"] = key[2])
    IN  [cols |-> <<"Container Name", "Description", "Weight (kgs)">>,
         rows |-> [i \in DOMAIN keys |->
                     ("Container Name" :> keys[i][1])
                     @@ ("Description" :> keys[i][2])
                     @@ ("Weight (kgs)" :> Num(SumCells(group(keys[i]), "Weight (kgs)")))]]

\* df.groupby(by)[col].sum().reset_index(name=total)
GroupSum(t, by, col, total) ==
    LET keys == SortStrings(Range(Column(t.rows, by)))
        group(c) == SelectSeq(t.rows, LAMBDA r : r[by] = c)
    IN  [cols |-> <<by, total>>,
         rows |-> [i \in DOMAIN keys |->
                     (by :> keys[i]) @@ (total :> Num(SumCells(group(keys[i]), col)))]]

\* lines 111-114
ShipmentCostDropNanKey(t) ==
    GroupSum([cols |-> t.cols,
              rows |-> SelectSeq(t.rows, LAMBDA r : r["Container Name"] # <<"n","a","n">>)],
             "Container Name", "Shipment Cost", "Total Shipment Cost (USD)")

ShipmentCostPerContainer(t) ==
    GroupSum(t, "Container Name", "Shipment Cost", "Total Shipment Cost (USD)")

\* lines 116-119
RevenuePerImporter(t) ==
    GroupSum(t, "Importer", "Value (USD)", "Total Value(USD) per Importer")

----------------------------------------------------------------------------
(* write_sheet                                                             *)

NumericLabels ==
    {"Quantity", "Weight (kgs)", "Value (USD)", "Unit Price (USD)", "Shipment Cost",
     "Total Products in Container", "Total Shipment Cost (USD)",
     "Total Value(USD) per Importer"}

\* pd.api.types.is_numeric_dtype(df_sheet[col]): the columns made by to_numeric,
\* len and sum are numeric; a raw numeric column is numeric unless it holds text
IsNumericDtype(t, col) ==
    \/ col \in NumericLabels
    \/ /\ col \in RawNumberLabels
       /\ \A i \in DOMAIN t.rows : t.rows[i][col].k \in {"num", "nan"}

NoColumn == ""

\* lines 128-135: the first column, in column order, that qualifies
SortColLast(t) ==
    LET cand == {i \in DOMAIN t.cols : HasKeyword(t.cols[i]) /\ IsNumericDtype(t, t.cols[i])}
    IN  IF cand = {} THEN NoColumn ELSE t.cols[SetMax(cand)]

SortCol(t) ==
    LET cand == {i \in DOMAIN t.cols : HasKeyword(t.cols[i]) /\ IsNumericDtype(t, t.cols[i])}
    IN  IF cand = {} THEN NoColumn ELSE t.cols[SetMin(cand)]

\* sort_values(by=col, ascending=False): NaN last, equal values keep their order
RECURSIVE SortDescending(_, _)
SortDescending(rows, col) ==
    IF rows = <<>> THEN <<>>
    ELSE LET init == SortDescending(SubSeq(rows, 1, Len(rows) - 1), col)
             x == rows[Len(rows)]
             ahead == {i \in DOMAIN init :
                          \/ x[col].k = "nan"
                          \/ init[i][col].k # "nan" /\ init[i][col].v >= x[col].v}
             n == Cardinality(ahead)
         IN  SubSeq(init, 1, n) \o <<x>> \o SubSeq(init, n + 1, Len(init))

\* lines 125-126
DropColumns(t, drop) ==
    LET kept == SelectSeq(t.cols, LAMBDA c : c \notin Range(drop))
    IN  [cols |-> kept,
         rows |-> [i \in DOMAIN t.rows |-> [c \in Range(kept) |-> t.rows[i][c]]]]

\* lines 158-165: the display format of a column
ColumnFormat(t, col) ==
    IF col = "Date" THEN "yyyy-mm-dd"
    ELSE IF HasKeyword(col) /\ IsNumericDtype(t, col) THEN "#,##,##0"
    ELSE "plain"

\* lines 124-165: the worksheet write_sheet leaves in the writer (column widths
\* are not modelled)
WrittenSheet(table, sheet_name, drop_columns) ==
    LET t == DropColumns(table, drop_columns)
        sort_col == SortCol(t)
        rows == IF sort_col # NoColumn THEN SortDescending(t.rows, sort_col) ELSE t.rows
    IN  [name |-> sheet_name,
         cols |-> t.cols,
         rows |-> rows,
         freeze_panes |-> <<1, 0>>,
         formats |-> [i \in DOMAIN t.cols |-> ColumnFormat(t, t.cols[i])]]

----------------------------------------------------------------------------
(* Inputs of the name normalizer                                           *)

MaxNames == 3

NamePool ==
    { <<"a"," ","b">>,
      <<"B"," ","A","." >>,
      <<"A"," "," ","B">>,
      <<"a","b">>,
      <<"A",".","b">>,
      <<" ","A","B"," ">>,
      <<"A","A","A","A">>,
      <<"A","A","A","A","A">>,
      <<"a","a","a","a","a","a">>,
      Null }

ImporterColumns == UNION {[1..n -> NamePool] : n \in 0..MaxNames}

InitNorm ==
    /\ pc = "norm_start"
    /\ importer_col \in ImporterColumns
    /\ normalized_col = <<>>
    /\ names = <<>>
    /\ k = 0
    /\ unique_names = <<>>
    /\ name_mapping = <<>>
    /\ uploaded_files = <<>>
    /\ idx = 0
    /\ all_data = <<>>
    /\ signals = <<>>
    /\ df = EmptyTable
    /\ products_per_container = EmptyTable
    /\ weight_per_product = EmptyTable
    /\ shipment_cost_per_container = EmptyTable
    /\ revenue_per_importer = EmptyTable
    /\ sheets = <<>>
    /\ main_output = <<>>

\* line 29-32
NormalizeColumn ==
    /\ pc = "norm_start"
    /\ normalized_col' = [i \in DOMAIN importer_col |-> NormalizeName(importer_col[i])]
    /\ names' = Unique(normalized_col')
    /\ unique_names' = <<>>
    /\ name_mapping' = <<>>
    /\ k' = 0
    /\ pc' = "norm_loop"
    /\ UNCHANGED <<importer_col, run_vars>>

\* lines 35-38
FirstName ==
    /\ pc = "norm_loop"
    /\ k < Len(names)
    /\ unique_names = <<>>
    /\ LET name == names[k + 1]
       IN  /\ unique_names' = Append(unique_names, name)
           /\ name_mapping' = Append(name_mapping, [name |-> name, canon |-> name])
    /\ k' = k + 1
    /\ UNCHANGED <<pc, importer_col, normalized_col, names, run_vars>>

\* lines 40-43
MatchName ==
    /\ pc = "norm_loop"
    /\ k < Len(names)
    /\ unique_names # <<>>
    /\ LET name == names[k + 1]
           best == ExtractOne(name, unique_names)
       IN  /\ ScoreGeq(best.score, similarity_threshold)
           /\ name_mapping' = Append(name_mapping, [name |-> name, canon |-> best.match])
    /\ k' = k + 1
    /\ UNCHANGED <<pc, importer_col, normalized_col, names, unique_names, run_vars>>

\* lines 40-42, 44-46
RegisterName ==
    /\ pc = "norm_loop"
    /\ k < Len(names)
    /\ unique_names # <<>>
    /\ LET name == names[k + 1]
           best == ExtractOne(name, unique_names)
       IN  /\ ~ScoreGeq(best.score, similarity_threshold)
           /\ unique_names' = Append(unique_names, name)
           /\ name_mapping' = Append(name_mapping, [name |-> name, canon |-> name])
    /\ k' = k + 1
    /\ UNCHANGED <<pc, importer_col, normalized_col, names, run_vars>>

\* line 48
NormReturn ==
    /\ pc = "norm_loop"
    /\ k = Len(names)
    /\ pc' = "norm_done"
    /\ UNCHANGED <<norm_vars, run_vars>>

NextNorm == NormalizeColumn \/ FirstName \/ MatchName \/ RegisterName \/ NormReturn

SpecNorm == InitNorm /\ [][NextNorm]_vars

----------------------------------------------------------------------------
(* Inputs of the script                                                    *)

MaxFiles == 2      \* files in one upload
MaxRecords == 2    \* rows in the files of one upload that pass validation

Row(importer, date, bill, quantity, value, price, description) ==
    ("Importer" :> importer) @@ ("Date" :> date) @@ ("Master Bill Number" :> bill)
    @@ ("Quantity" :> quantity) @@ ("Value(USD)" :> value)
    @@ ("Unit Price(USD)" :> price) @@ ("Description" :> description)

AllNullRow == Row(Null, NoDate, Null, NaN, NaN, NaN, Null)

RowPool ==
    { Row(<<"B">>, DateCell(1, 5), <<" ","M","1"," ">>, Num(2), Num(5), Num(2), <<"p">>),
      Row(<<" ","a","b">>, DateCell(3, 12), Null, Num(1), NumText(2), Num(2), Null),
      Row(<<"A","b">>, BadDate, Null, BadText, Num(3), BadText, <<"q">>),
      Row(<<" ">>, DateCell(1, 5), Null, Num(3), NaN, NaN, <<"p">>) }

HeaderFull ==
    <<"Unnamed: 0", "Importer", "Date", "Master Bill Number", "Quantity",
      "Value(USD)", "Unit Price(USD)", " Description ">>
HeaderCarrier ==
    <<"Unnamed: 0", "Importer", "Date", "Carrier", "Master Bill Number", "Quantity",
      "Value(USD)", "Unit Price(USD)", "Description">>
HeaderNoBill ==
    <<"Unnamed: 0", "Importer", "Date", "Quantity",
      "Value(USD)", "Unit Price(USD)", "Description">>

\* the rows of a sheet with the given header row
RowsUnder(header, rows) ==
    [i \in DOMAIN rows |->
        [h \in Range(Tail(header)) |->
            IF StripLabel(h) = "Carrier"
            THEN (IF rows[i] = AllNullRow THEN Null ELSE <<"M","S","C">>)
            ELSE rows[i][StripLabel(h)]]]

File(readable, header, rows) ==
    [readable |-> readable, header |-> header, rows |-> RowsUnder(header, rows)]

Unreadable == File(FALSE, <<>>, <<>>)

\* the layout of the i-th file of an upload: the layouts alternate
HeaderOf(i) == IF i % 2 = 1 THEN HeaderFull ELSE HeaderCarrier

\* the i-th file of an upload when it holds n rows that count; an unreadable file,
\* a file with a column missing and a file of blank rows add nothing to the table
FilesOf(i, n) ==
    IF n = 0
    THEN {Unreadable,
          File(TRUE, HeaderNoBill, <<CHOOSE r \in RowPool : r["Importer"] = <<"B">> >>),
          File(TRUE, HeaderOf(i), <<AllNullRow>>)}
    ELSE {File(TRUE, HeaderOf(i), rows) : rows \in [1..n -> RowPool]}

FileName(i) == "f" \o ToString(i)

\* the uploads of n files holding at most budget rows
RECURSIVE Uploads(_, _)
Uploads(n, budget) ==
    IF n = 0 THEN {<<>>}
    ELSE UNION { { Append(u, [name |-> FileName(n)] @@ f) :
                     u \in Uploads(n - 1, budget - r), f \in FilesOf(n, r) } :
                 r \in 0..budget }

Init ==
    /\ pc = "start"
    /\ uploaded_files \in UNION {Uploads(n, MaxRecords) : n \in 0..MaxFiles}
    /\ idx = 0
    /\ all_data = <<>>
    /\ signals = <<>>
    /\ df = EmptyTable
    /\ products_per_container = EmptyTable
    /\ weight_per_product = EmptyTable
    /\ shipment_cost_per_container = EmptyTable
    /\ revenue_per_importer = EmptyTable
    /\ sheets = <<>>
    /\ main_output = <<>>
    /\ importer_col = <<>>
    /\ normalized_col = <<>>
    /\ names = <<>>
    /\ k = 0
    /\ unique_names = <<>>
    /\ name_mapping = <<>>

----------------------------------------------------------------------------
(* The script                                                              *)

Signal(kind, file) == [kind |-> kind, file |-> file, data |-> <<>>]

\* line 50, false: nothing is uploaded and nothing runs
NoUpload ==
    /\ pc = "start"
    /\ uploaded_files = <<>>
    /\ pc' = "idle"
    /\ UNCHANGED <<run_vars, norm_vars>>

\* lines 50-51
BeginIngest ==
    /\ pc = "start"
    /\ uploaded_files # <<>>
    /\ all_data' = <<>>
    /\ idx' = 0
    /\ pc' = "ingest"
    /\ UNCHANGED <<uploaded_files, signals, df, agg_vars, sheets, main_output, norm_vars>>

\* lines 55-56: the columns of the frame, the header row without its first column
RawCols(file) == Tail(file.header)

\* line 62: the labels stripped
FrameCols(file) == [i \in DOMAIN RawCols(file) |-> StripLabel(RawCols(file)[i])]

FrameRows(file) ==
    [i \in DOMAIN file.rows |->
        [c \in Range(FrameCols(file)) |->
            file.rows[i][CHOOSE h \in Range(RawCols(file)) : StripLabel(h) = c]]]

Consume ==
    /\ idx' = idx + 1
    /\ UNCHANGED <<pc, uploaded_files, df, agg_vars, sheets, main_output, norm_vars>>

\* lines 55, 70-71: reading raises
ReadError ==
    /\ pc = "ingest"
    /\ idx < Len(uploaded_files)
    /\ LET file == uploaded_files[idx + 1]
       IN  /\ ~file.readable
           /\ signals' = Append(signals, Signal("error", file.name))
           /\ UNCHANGED all_data
    /\ Consume

\* lines 58-60
SkipEmpty ==
    /\ pc = "ingest"
    /\ idx < Len(uploaded_files)
    /\ LET file == uploaded_files[idx + 1]
       IN  /\ file.readable
           /\ IsEmptyFrame(RawCols(file), file.rows)
           /\ signals' = Append(signals, Signal("warning: empty", file.name))
           /\ UNCHANGED all_data
    /\ Consume

\* lines 62-66
SkipMissing ==
    /\ pc = "ingest"
    /\ idx < Len(uploaded_files)
    /\ LET file == uploaded_files[idx + 1]
       IN  /\ file.readable
           /\ ~IsEmptyFrame(RawCols(file), file.rows)
           /\ MissingColumns(FrameCols(file)) # <<>>
           /\ signals' = Append(signals, Signal("warning: missing columns", file.name))
           /\ UNCHANGED all_data
    /\ Consume

\* lines 68-69: the frame tagged with its file name
TaggedFrame(file) ==
    [cols |-> Append(FrameCols(file), "source_file"),
     rows |-> [i \in DOMAIN file.rows |->
                 ("source_file" :> file.name) @@ FrameRows(file)[i]]]

\* lines 62-69
AppendFile ==
    /\ pc = "ingest"
    /\ idx < Len(uploaded_files)
    /\ LET file == uploaded_files[idx + 1]
       IN  /\ file.readable
           /\ ~IsEmptyFrame(RawCols(file), file.rows)
           /\ MissingColumns(FrameCols(file)) = <<>>
           /\ all_data' = Append(all_data, TaggedFrame(file))
           /\ UNCHANGED signals
    /\ Consume

\* line 73: not all_data
NoValidDataNever == FALSE
NoValidData == all_data = <<>>

\* lines 73-74: st.stop()
HaltNoData ==
    /\ pc = "ingest"
    /\ idx = Len(uploaded_files)
    /\ NoValidData
    /\ pc' = "stopped"
    /\ UNCHANGED <<run_vars, norm_vars>>

\* lines 73, 76
ConcatData ==
    /\ pc = "ingest"
    /\ idx = Len(uploaded_files)
    /\ ~NoValidData
    /\ df' = Concat(all_data)
    /\ pc' = "derive"
    /\ UNCHANGED <<uploaded_files, idx, all_data, signals, agg_vars, sheets, main_output,
                   norm_vars>>

\* lines 77-93
Derive ==
    /\ pc = "derive"
    /\ df' = DeriveTable(df)
    /\ pc' = "aggregate"
    /\ UNCHANGED <<uploaded_files, idx, all_data, signals, agg_vars, sheets, main_output,
                   norm_vars>>

\* lines 95-119
Aggregate ==
    /\ pc = "aggregate"
    /\ products_per_container' = ProductsPerContainer(df)
    /\ weight_per_product' = WeightPerProduct(df)
    /\ shipment_cost_per_container' = ShipmentCostPerContainer(df)
    /\ revenue_per_importer' = RevenuePerImporter(df)
    /\ pc' = "open"
    /\ UNCHANGED <<uploaded_files, idx, all_data, signals, df, sheets, main_output,
                   norm_vars>>

\* lines 121-122
OpenWriter ==
    /\ pc = "open"
    /\ main_output' = <<>>
    /\ sheets' = <<>>
    /\ pc' = "write"
    /\ UNCHANGED <<uploaded_files, idx, all_data, signals, df, agg_vars, norm_vars>>

SheetCount == 5

\* lines 167-171: the n-th call of write_sheet
SheetCallsShort(n) ==
    CASE n = 1 -> WrittenSheet(df, "Cleaned Data", ignore_columns_in_cleaned_sheet)
      [] n = 2 -> WrittenSheet(products_per_container, "Products per Container", <<>>)
      [] n = 3 -> WrittenSheet(weight_per_product, "Weight per Product", <<>>)
      [] n = 4 -> WrittenSheet(shipment_cost_per_container, "Shipment Cost", <<>>)
      [] n = 5 -> WrittenSheet(shipment_cost_per_container, "Shipment Cost", <<>>)

SheetCalls(n) ==
    CASE n = 1 -> WrittenSheet(df, "Cleaned Data", ignore_columns_in_cleaned_sheet)
      [] n = 2 -> WrittenSheet(products_per_container, "Products per Container", <<>>)
      [] n = 3 -> WrittenSheet(weight_per_product, "Weight per Product", <<>>)
      [] n = 4 -> WrittenSheet(shipment_cost_per_container, "Shipment Cost", <<>>)
      [] n = 5 -> WrittenSheet(revenue_per_importer, "Total Value per Importer", <<>>)

\* one call of write_sheet (lines 124-165)
WriteSheet ==
    /\ pc = "write"
    /\ Len(sheets) < SheetCount
    /\ sheets' = Append(sheets, SheetCalls(Len(sheets) + 1))
    /\ UNCHANGED <<pc, uploaded_files, idx, all_data, signals, df, agg_vars, main_output,
                   norm_vars>>

\* the end of the with block of line 122: the workbook is saved into main_output
CloseWriter ==
    /\ pc = "write"
    /\ Len(sheets) = SheetCount
    /\ main_output' = [i \in DOMAIN sheets |-> sheets[i].name]
    /\ pc' = "success"
    /\ UNCHANGED <<uploaded_files, idx, all_data, signals, df, agg_vars, sheets, norm_vars>>

\* line 173
Success ==
    /\ pc = "success"
    /\ signals' = Append(signals, Signal("success", ""))
    /\ pc' = "download"
    /\ UNCHANGED <<uploaded_files, idx, all_data, df, agg_vars, sheets, main_output,
                   norm_vars>>

\* lines 174-179
Download ==
    /\ pc = "download"
    /\ signals' = Append(signals, [kind |-> "download",
                                   file |-> "Container_Analysis_Report.xlsx",
                                   data |-> main_output])
    /\ pc' = "done"
    /\ UNCHANGED <<uploaded_files, idx, all_data, df, agg_vars, sheets, main_output,
                   norm_vars>>

Next ==
    \/ NoUpload \/ BeginIngest
    \/ ReadError \/ SkipEmpty \/ SkipMissing \/ AppendFile
    \/ HaltNoData \/ ConcatData \/ Derive \/ Aggregate
    \/ OpenWriter \/ WriteSheet \/ CloseWriter \/ Success \/ Download

Spec == Init /\ [][Next]_vars

----------------------------------------------------------------------------
(* Claims about the name normalizer                                        *)

IsLetter(c) == c \in Range(LowerCase) \cup Range(UpperCase)
IsAlnum(c) == IsLetter(c) \/ c \in Range(Digits)
IsPunct(c) == ~IsAlnum(c) /\ c \notin Whitespace

\* what is left of a string when letter case, punctuation and all spacing are ignored
LooseKey(s) == Lower(SelectSeq(s, IsAlnum))

\* what is left of a string when letter case, punctuation and leading/trailing
\* whitespace are ignored
TightKey(s) == Lower(Strip(SelectSeq(s, LAMBDA c : ~IsPunct(c))))

Normalized == pc \in {"norm_loop", "norm_done"}

\* the canonical forms registered before the j-th name was processed
CanonBefore(j) ==
    {names[i] : i \in {i \in 1..(j - 1) : name_mapping[i].canon = names[i]}}

\* C5: names are processed in first-seen order; the first is its own canonical
\* form; a later name maps to a best-scoring canonical form registered so far when
\* that score is >= 90 and otherwise is registered as canonical, mapped to itself;
\* a mapping target is always registered, a matched name never is.
C5_GreedyClustering ==
    Normalized =>
        /\ Len(name_mapping) = k
        /\ \A j \in 1..k :
            LET name == names[j]
                canon == name_mapping[j].canon
                before == CanonBefore(j)
                reached == \E c \in before :
                              ScoreGeq(TokenSortRatio(name, c), similarity_threshold)
            IN  /\ name_mapping[j].name = name
                /\ (j = 1) <=> (before = {})
                /\ IF reached
                   THEN /\ canon \in before
                        /\ \A c \in before :
                              ~ScoreGt(TokenSortRatio(name, c), TokenSortRatio(name, canon))
                   ELSE canon = name
                /\ canon \in Range(unique_names)
                /\ (canon # name) => (name \notin Range(unique_names))
        /\ unique_names =
              SelectSeq(SubSeq(names, 1, k),
                        LAMBDA n : \E j \in 1..k :
                                      name_mapping[j] = [name |-> n, canon |-> n])

\* a later name matched a canonical form that is not the first one registered
C5_Witness ==
    /\ pc = "norm_done"
    /\ Len(unique_names) >= 2
    /\ \E j \in 1..k :
          /\ name_mapping[j].canon # names[j]
          /\ name_mapping[j].canon # unique_names[1]
          /\ Cardinality(CanonBefore(j)) >= 2

\* C6 as stated: importers that differ only by letter case, punctuation or spacing
\* get the same Normalized_Importer.
C6_AnySpacing ==
    Normalized =>
        \A i, j \in DOMAIN importer_col :
            (/\ importer_col[i] # Null
             /\ importer_col[j] # Null
             /\ LooseKey(importer_col[i]) = LooseKey(importer_col[j]))
            => normalized_col[i] = normalized_col[j]

\* C6 amended: importers that differ only by letter case, punctuation or
\* leading/trailing whitespace get the same Normalized_Importer.
C6_CasePunctOuterSpace ==
    Normalized =>
        \A i, j \in DOMAIN importer_col :
            (/\ importer_col[i] # Null
             /\ importer_col[j] # Null
             /\ TightKey(importer_col[i]) = TightKey(importer_col[j]))
            => normalized_col[i] = normalized_col[j]

\* two different spellings, one with lower case, one with punctuation or outer
\* spaces, were normalized to the same string
C6_Witness ==
    /\ pc = "norm_done"
    /\ \E i, j \in DOMAIN importer_col :
          /\ importer_col[i] # Null
          /\ importer_col[j] # Null
          /\ importer_col[i] # importer_col[j]
          /\ Len(importer_col[i]) # Len(importer_col[j])
          /\ \E c \in Range(importer_col[i]) : IsLetter(c) /\ ToUpper(c) # c
          /\ TightKey(importer_col[i]) = TightKey(importer_col[j])
          /\ normalized_col[i] = normalized_col[j]

----------------------------------------------------------------------------
(* Claims about the script                                                 *)

\* a file passes validation: it can be read, one of its rows is not blank, and its
\* header row, without the first column, holds every required column once stripped
Validates(file) ==
    /\ file.readable
    /\ \E i \in DOMAIN file.rows :
          \E h \in DOMAIN file.rows[i] : ~IsNullCell(h, file.rows[i][h])
    /\ LET stripped == {Strip(Chars(file.header[j])) : j \in 2..Len(file.header)}
       IN  \A c \in Range(required_columns) : Chars(c) \in stripped

\* <<file, row>> for every row of the first n files that pass validation, in order
RECURSIVE ValidRows(_)
ValidRows(n) ==
    IF n = 0 THEN <<>>
    ELSE ValidRows(n - 1)
         \o (IF Validates(uploaded_files[n])
             THEN [j \in 1..Len(uploaded_files[n].rows) |-> <<n, j>>]
             ELSE <<>>)

ValidNames == {uploaded_files[i].name :
                  i \in {i \in DOMAIN uploaded_files : Validates(uploaded_files[i])}}

Unified == pc = "derive"
\* the states right after field derivation and after aggregation, and the end of
\* the run: the tables are not assigned in between
Derived == pc \in {"aggregate", "done"}
Aggregated == pc \in {"open", "done"}

\* C1: the unified table (as line 76 builds it, and as the finished run holds it)
\* is exactly the rows of the files that passed validation, in upload order, each
\* file's rows in their order, each row tagged with its file's name; a file that
\* was skipped adds no row to the table or to a sheet, and the files after it are
\* still processed.
C1_UnifiedTable ==
    (Unified \/ pc = "done") =>
        LET refs == ValidRows(Len(uploaded_files))
            valid == ValidNames
        IN  /\ Len(df.rows) = Len(refs)
            /\ \A n \in DOMAIN refs :
                  df.rows[n]["source_file"] = uploaded_files[refs[n][1]].name
            /\ Unified =>
                  \A n \in DOMAIN refs :
                      LET raw == uploaded_files[refs[n][1]].rows[refs[n][2]]
                      IN  \A h \in DOMAIN raw : df.rows[n][StripLabel(h)] = raw[h]
            /\ \A n \in DOMAIN sheets :
                  IF n = 1
                  THEN /\ Len(sheets[n].rows) = Len(refs)
                       /\ \A i \in DOMAIN sheets[n].rows :
                             sheets[n].rows[i]["source_file"] \in valid
                  ELSE \A i \in DOMAIN sheets[n].rows :
                          LET key == sheets[n].cols[1]
                          IN  \E j \in DOMAIN df.rows :
                                 df.rows[j][key] = sheets[n].rows[i][key]

\* a file with a column missing was skipped and the file after it, with two rows,
\* makes up the unified table
C1_Witness ==
    /\ pc = "derive"
    /\ Len(uploaded_files) = 2
    /\ uploaded_files[1].readable
    /\ "Master Bill Number" \notin Range(uploaded_files[1].header)
    /\ Validates(uploaded_files[2])
    /\ Len(df.rows) = 2
    /\ df.rows[1] # df.rows[2]

\* C2: when every uploaded file is skipped the run halts before derivation: no
\* table, no sheet, no workbook, no success message and no download.
C2_AllSkippedHalts ==
    \/ /\ pc \in {"start", "ingest", "stopped"}
       /\ df = EmptyTable
       /\ products_per_container = EmptyTable
       /\ weight_per_product = EmptyTable
       /\ shipment_cost_per_container = EmptyTable
       /\ revenue_per_importer = EmptyTable
       /\ sheets = <<>>
       /\ main_output = <<>>
       /\ \A i \in DOMAIN signals : signals[i].kind \notin {"success", "download"}
       /\ (pc = "ingest" /\ idx = Len(uploaded_files)) => ENABLED HaltNoData
    \/ uploaded_files = <<>>
    \/ \E i \in DOMAIN uploaded_files : Validates(uploaded_files[i])

\* two files were skipped, one with an error and one with a warning, and the run
\* stopped
C2_Witness ==
    /\ pc = "stopped"
    /\ Len(uploaded_files) = 2
    /\ Len(signals) = 2
    /\ \E i, j \in DOMAIN signals :
          signals[i].kind = "error" /\ signals[j].kind = "warning: missing columns"

\* the rows as read, in the order of the unified table
all_rows == ConcatRows(all_data)

RowsOf(t, col, key) == SelectSeq(t.rows, LAMBDA r : r[col] = key)

\* C3: for every Container Name the weights of its 'Weight per Product' rows add up
\* to the weights of its records, NaN counting as 0, also when a Description is null.
C3_WeightConserved ==
    Aggregated =>
        \A i \in DOMAIN df.rows :
            LET c == df.rows[i]["Container Name"]
            IN  SumCells(RowsOf(weight_per_product, "Container Name", c), "Weight (kgs)")
                = SumCells(RowsOf(df, "Container Name", c), "Weight (kgs)")

\* the Master Bill Number, as read, is present
BillPresent(raw) == raw["Master Bill Number"] \notin {Null, <<"n","a","n">>}

\* "{Importer} {MonthDay of Date}" from the trimmed, upper-cased Importer
Synthesized(raw, date) ==
    Upper(Strip(raw["Importer"])) \o <<" ">> \o MonthName[date.m] \o TwoDigits(date.d)

\* C4 as stated: with Importer and Date non-null the Container Name is non-null: the
\* trimmed Master Bill Number when there is one, otherwise the synthesized value.
C4_ContainerName ==
    Derived =>
        \A i \in DOMAIN df.rows :
            LET raw == all_rows[i]
                r == df.rows[i]
            IN  (raw["Importer"] # Null /\ r["Date"].k = "date") =>
                    /\ r["Container Name"] # Null
                    /\ r["Container Name"] =
                          IF BillPresent(raw) THEN Strip(raw["Master Bill Number"])
                          ELSE Synthesized(raw, r["Date"])

\* C4 amended: ... otherwise the trimmed copy of the synthesized value.
C4_ContainerNameTrimmed ==
    Derived =>
        \A i \in DOMAIN df.rows :
            LET raw == all_rows[i]
                r == df.rows[i]
            IN  (raw["Importer"] # Null /\ r["Date"].k = "date") =>
                    /\ r["Container Name"] # Null
                    /\ r["Container Name"] =
                          IF BillPresent(raw) THEN Strip(raw["Master Bill Number"])
                          ELSE Strip(Synthesized(raw, r["Date"]))

\* a record without a bill number got a synthesized Container Name, and another kept
\* its trimmed bill number
C4_Witness ==
    /\ pc = "done"
    /\ \E i, j \in DOMAIN df.rows :
          /\ ~BillPresent(all_rows[i])
          /\ df.rows[i]["Date"].k = "date"
          /\ df.rows[i]["Importer"] # <<>>
          /\ df.rows[i]["Container Name"]
                = df.rows[i]["Importer"] \o <<" ">> \o df.rows[i]["Date_str"]
          /\ BillPresent(all_rows[j])
          /\ df.rows[j]["Container Name"] # all_rows[j]["Master Bill Number"]

IsPrefix(pre, str) == Len(pre) <= Len(str) /\ SubSeq(str, 1, Len(pre)) = pre

\* C9: a record with neither a Master Bill Number nor a Date keeps its place, gets a
\* Master Bill Number made of its Importer followed by a placeholder for the date,
\* and its Container Name is the trimmed copy of it.
C9_NullDateSynthesized ==
    Derived =>
        /\ Len(df.rows) = Len(all_rows)
        /\ \A i \in DOMAIN df.rows :
              LET raw == all_rows[i]
                  r == df.rows[i]
              IN  (~BillPresent(raw) /\ r["Date"].k = "nat") =>
                      /\ IsPrefix(r["Importer"] \o <<" ">>, r["Master Bill Number"])
                      /\ r["Container Name"] = Strip(r["Master Bill Number"])

\* the numbers of a raw numeric column add up, text that parses included
RECURSIVE SumRaw(_, _)
SumRaw(rows, col) ==
    IF rows = <<>> THEN 0
    ELSE (IF Head(rows)[col].k \in {"num", "str"} THEN Head(rows)[col].v ELSE 0)
         + SumRaw(Tail(rows), col)

\* C10: the Shipment Cost totals and the Total Value per Importer totals both add up
\* to the sum of the non-null values of the unified table, and every record falls
\* into a group of each.
C10_ValueConserved ==
    Aggregated =>
        LET total == SumRaw(all_rows, "Value(USD)")
        IN  /\ SumCells(shipment_cost_per_container.rows, "Total Shipment Cost (USD)") = total
            /\ SumCells(revenue_per_importer.rows, "Total Value(USD) per Importer") = total
            /\ \A i \in DOMAIN df.rows :
                  /\ RowsOf(shipment_cost_per_container, "Container Name",
                            df.rows[i]["Container Name"]) # <<>>
                  /\ RowsOf(revenue_per_importer, "Importer", df.rows[i]["Importer"]) # <<>>

\* two records of two containers, one of them the container "nan" of a record
\* without bill number and date, with a total that is not 0
C10_Witness ==
    /\ pc = "done"
    /\ Len(shipment_cost_per_container.rows) = 2
    /\ RowsOf(shipment_cost_per_container, "Container Name", <<"n","a","n">>) # <<>>
    /\ SumCells(RowsOf(shipment_cost_per_container, "Container Name", <<"n","a","n">>),
                "Total Shipment Cost (USD)") > 0
    /\ SumCells(revenue_per_importer.rows, "Total Value(USD) per Importer") > 0

\* the table handed to the n-th call of write_sheet, without the dropped columns
SheetSource(n) ==
    CASE n = 1 -> DropColumns(df, ignore_columns_in_cleaned_sheet)
      [] n = 2 -> products_per_container
      [] n = 3 -> weight_per_product
      [] n = 4 -> shipment_cost_per_container
      [] n = 5 -> revenue_per_importer

Count(rows, r) == Cardinality({i \in DOMAIN rows : rows[i] = r})
SameRows(a, b) ==
    /\ Len(a) = Len(b)
    /\ \A i \in DOMAIN a : Count(a, a[i]) = Count(b, a[i])

\* x may stand before y in descending order, NaN last
NotBelow(x, y) == y.k = "nan" \/ (x.k = "num" /\ x.v >= y.v)

\* the columns write_sheet may sort by
Qualifies(t, col) == HasKeyword(col) /\ IsNumericDtype(t, col)

\* C7: each of the five sheets of a finished run is sorted, descending, by its
\* first column in column order whose lower-cased label holds 'cost', 'revenue',
\* 'weight' or 'value' and whose type is numeric, and keeps its order when it has
\* none; 'Shipment Cost' lists its containers by descending total.
C7_SortColumn ==
    (pc = "done") =>
        \A n \in DOMAIN sheets :
            LET src == SheetSource(n)
                able == {i \in DOMAIN src.cols : Qualifies(src, src.cols[i])}
                first == {i \in able : \A j \in able : i <= j}
            IN  /\ sheets[n].cols = src.cols
                /\ IF first = {}
                   THEN sheets[n].rows = src.rows
                   ELSE LET col == src.cols[CHOOSE i \in first : TRUE]
                        IN  /\ SameRows(sheets[n].rows, src.rows)
                            /\ \A a, b \in DOMAIN sheets[n].rows :
                                  a < b => NotBelow(sheets[n].rows[a][col],
                                                    sheets[n].rows[b][col])
                /\ (n = 2) => (first = {})
                /\ (n = 4) =>
                      \A a, b \in DOMAIN sheets[n].rows :
                          a < b => sheets[n].rows[a]["Total Shipment Cost (USD)"].v
                                   >= sheets[n].rows[b]["Total Shipment Cost (USD)"].v

\* the raw Value(USD) column holds text, so 'Cleaned Data' was sorted by Weight (kgs),
\* which changed its order, and 'Shipment Cost' lists a larger total first
C7_Witness ==
    /\ pc = "done"
    /\ ~IsNumericDtype(df, "Value(USD)")
    /\ sheets[1].rows # SheetSource(1).rows
    /\ Len(sheets[4].rows) = 2
    /\ sheets[4].rows # shipment_cost_per_container.rows
    /\ sheets[4].rows[1]["Total Shipment Cost (USD)"].v
          > sheets[4].rows[2]["Total Shipment Cost (USD)"].v

SheetNames ==
    <<"Cleaned Data", "Products per Container", "Weight per Product", "Shipment Cost",
      "Total Value per Importer">>

\* C8: a run with a file that validates writes exactly the five sheets, each once,
\* and shows the success message and the download only after all five.
C8_FiveSheets ==
    /\ Len(sheets) <= Len(SheetNames)
    /\ \A n \in DOMAIN sheets : sheets[n].name = SheetNames[n]
    /\ (\E i \in DOMAIN signals : signals[i].kind \in {"success", "download"}) =>
          /\ Len(sheets) = Len(SheetNames)
          /\ main_output = SheetNames
    /\ (pc \in {"idle", "stopped"}) =>
          \A i \in DOMAIN uploaded_files : ~Validates(uploaded_files[i])
    /\ (pc = "done" /\ \E i \in DOMAIN uploaded_files : Validates(uploaded_files[i])) =>
          /\ main_output = SheetNames
          /\ Len(signals) >= 2
          /\ signals[Len(signals) - 1].kind = "success"
          /\ signals[Len(signals)].kind = "download"
          /\ signals[Len(signals)].data = SheetNames
          /\ Cardinality({i \in DOMAIN signals :
                             signals[i].kind \in {"success", "download"}}) = 2

C8_Witness ==
    /\ pc = "done"
    /\ Len(sheets) = 5
    /\ main_output # <<>>
    /\ signals[Len(signals)].kind = "download"

====
